---- MODULE Spec2Model ----
(***************************************************************************)
(* Perth Container Finder chatbot (src/container_chatbot.py): the static   *)
(* catalogs, the location resolver (find_location,                         *)
(* get_nearby_collection_points) and the conversational gateway (call_api) *)
(* with its transcript (message_history), and the loop of run() with its   *)
(* commands (help, map, stats).  The catalog of the map script             *)
(* (src/main.py) is given for its data invariants.                         *)
(*                                                                         *)
(* Text is a sequence of chunks.  Text that the code inspects character by *)
(* character (queries, aliases, hotspot names) is a sequence of one-       *)
(* character strings; text that the code only copies (descriptions, format *)
(* literals) is a single chunk.  Concatenation is \o.  Non-ASCII symbols   *)
(* of the format literals (emoji, the cent sign) are left out of the       *)
(* chunks.                                                                  *)
(*                                                                         *)
(* Coordinates are integers in units of 1e-4 degree (every coordinate of   *)
(* the catalogs has at most four decimals).                                *)
(***************************************************************************)
EXTENDS Integers, Sequences, FiniteSets

VARIABLES
  pc,               \* where the program is: "call", "returned" for a call of
                    \* the resolver on its own; "prompt", "exited" for run()
  query,            \* find_location: the argument of the last call
  found,            \* find_location: the value the last call returned
  location_coords,  \* get_nearby_collection_points: the coordinate argument
  limit,            \* get_nearby_collection_points: the limit argument
  nearby,           \* get_nearby_collection_points: the list returned
  message_history,  \* ContainerChatbot.message_history: the transcript
  user_input,       \* run: the line read at the prompt, stripped
  message,          \* call_api: the argument of the last call
  net,              \* the outcome of the last call's requests.post
  response,         \* call_api: the value the last call returned
  posts,            \* the payloads handed to requests.post, in order
  data_manager,     \* ContainerDataManager: the catalogs as they are now
  displayed,        \* run: the texts printed since the last prompt
  raised,           \* run: the exception its handlers caught last
  now,              \* generate_map: the last value of datetime.now()
  filename,         \* generate_map: the last file name it built
  files             \* the names of the files written so far

vars == <<pc, query, found, location_coords, limit, nearby,
          message_history, user_input, message, net, response, posts,
          data_manager, displayed, raised, now, filename, files>>

resolverVars == <<query, found>>
nearbyVars == <<location_coords, limit, nearby>>
gatewayVars == <<message_history, user_input, message, net, response, posts>>
consoleVars == <<displayed, raised>>
mapVars == <<now, filename, files>>

----------------------------------------------------------------------------
(* Bounds of the model *)

\* a query of the resolver is the concatenation of at most MaxPieces fragments
MaxPieces == 3
\* limits passed to get_nearby_collection_points range over -NegLimit..MaxLimit
MaxLimit == 9
NegLimit == 2
\* calls of call_api in one run
MaxSends == 2

----------------------------------------------------------------------------
(* The catalogs: ContainerDataManager.__init__ *)

\* Python's None
None == [none |-> TRUE]

cash_collection_points ==
  <<
    [name |-> <<"R","e","t","u","r","n","-","I","t"," ","B","a","l","c","a","t","t","a"," ","D","r","i","v","e","-","T","h","r","u">>,
     coords |-> <<-318700, 1158300>>, type |-> "drive_thru",
     address |-> "Balcatta", refund_rate |-> "10c per container", hours |-> "7am-6pm daily"],
    [name |-> <<"R","e","t","u","r","n","-","I","t"," ","C","o","c","k","b","u","r","n"," ","D","r","i","v","e","-","T","h","r","u">>,
     coords |-> <<-321200, 1158500>>, type |-> "drive_thru",
     address |-> "Cockburn", refund_rate |-> "10c per container", hours |-> "7am-6pm daily"],
    [name |-> <<"R","e","t","u","r","n","-","I","t"," ","S","h","e","n","t","o","n"," ","P","a","r","k"," ","D","r","i","v","e","-","T","h","r","u">>,
     coords |-> <<-319600, 1158100>>, type |-> "drive_thru",
     address |-> "Shenton Park", refund_rate |-> "10c per container", hours |-> "7am-6pm daily"],
    [name |-> <<"R","e","t","u","r","n","-","I","t"," ","W","e","l","s","h","p","o","o","l"," ","D","r","i","v","e","-","T","h","r","u">>,
     coords |-> <<-319900, 1159300>>, type |-> "drive_thru",
     address |-> "Welshpool", refund_rate |-> "10c per container", hours |-> "7am-6pm daily"],
    [name |-> <<"R","e","t","u","r","n","-","I","t"," ","M","a","l","a","g","a"," ","A","u","t","o","m","a","t","e","d">>,
     coords |-> <<-318600, 1158900>>, type |-> "automated",
     address |-> "Malaga", refund_rate |-> "10c per container", hours |-> "24/7 access"],
    [name |-> <<"R","e","t","u","r","n","-","I","t"," ","B","u","t","l","e","r","/","C","l","a","r","k","s","o","n"," ","A","u","t","o","m","a","t","e","d">>,
     coords |-> <<-317200, 1157000>>, type |-> "automated",
     address |-> "Butler/Clarkson", refund_rate |-> "10c per container", hours |-> "24/7 access"],
    [name |-> <<"W","e","s","t","f","i","e","l","d"," ","C","a","r","o","u","s","e","l"," ","R","V","M">>,
     coords |-> <<-320177, 1159344>>, type |-> "rvm",
     address |-> "Westfield Carousel", refund_rate |-> "10c per container", hours |-> "Mall hours"],
    [name |-> <<"G","a","r","d","e","n"," ","C","i","t","y"," ","S","h","o","p","p","i","n","g"," ","C","e","n","t","r","e"," ","R","V","M">>,
     coords |-> <<-320600, 1158000>>, type |-> "rvm",
     address |-> "Garden City", refund_rate |-> "10c per container", hours |-> "Mall hours"]
  >>

\* the table with 'cott' declared for Scarborough Beach
location_aliases_cott_elsewhere ==
  <<
    << <<"c","o","t","t","e","s","l","o","e">>,
      <<"C","o","t","t","e","s","l","o","e"," ","B","e","a","c","h">> >>,
    << <<"c","o","t","t">>,
      <<"S","c","a","r","b","o","r","o","u","g","h"," ","B","e","a","c","h">> >>,
    << <<"s","c","a","r","b","o","r","o","u","g","h">>,
      <<"S","c","a","r","b","o","r","o","u","g","h"," ","B","e","a","c","h">> >>,
    << <<"s","c","a","r","b","s">>,
      <<"S","c","a","r","b","o","r","o","u","g","h"," ","B","e","a","c","h">> >>,
    << <<"k","i","n","g","s"," ","p","a","r","k">>,
      <<"K","i","n","g","s"," ","P","a","r","k">> >>,
    << <<"o","p","t","u","s">>,
      <<"O","p","t","u","s"," ","S","t","a","d","i","u","m"," ","S","u","r","r","o","u","n","d","s">> >>,
    << <<"o","p","t","u","s"," ","s","t","a","d","i","u","m">>,
      <<"O","p","t","u","s"," ","S","t","a","d","i","u","m"," ","S","u","r","r","o","u","n","d","s">> >>,
    << <<"n","o","r","t","h","b","r","i","d","g","e">>,
      <<"N","o","r","t","h","b","r","i","d","g","e"," ","S","t","r","e","e","t","s">> >>,
    << <<"f","r","e","m","a","n","t","l","e">>,
      <<"F","r","e","m","a","n","t","l","e"," ","B","e","a","c","h">> >>,
    << <<"f","r","e","o">>,
      <<"F","r","e","m","a","n","t","l","e"," ","B","e","a","c","h">> >>,
    << <<"u","w","a">>,
      <<"U","W","A"," ","C","a","m","p","u","s"," ","&"," ","S","u","r","r","o","u","n","d","s">> >>,
    << <<"c","u","r","t","i","n">>,
      <<"C","u","r","t","i","n"," ","U","n","i","v","e","r","s","i","t","y"," ","A","r","e","a">> >>
  >>

litter_hotspots ==
  <<
    [name |-> <<"C","o","t","t","e","s","l","o","e"," ","B","e","a","c","h">>,
     coords |-> <<-319959, 1157581>>, type |-> "beach", litter_density |-> 10,
     peak_times |-> "Weekends, summer evenings",
     container_types |-> "Beer cans, soft drink bottles, water bottles",
     specific_areas |-> "Main beach area near pavilion, north end near groyne, around beach volleyball courts"],
    [name |-> <<"S","c","a","r","b","o","r","o","u","g","h"," ","B","e","a","c","h">>,
     coords |-> <<-318944, 1157581>>, type |-> "beach", litter_density |-> 9,
     peak_times |-> "Daily, especially weekends",
     container_types |-> "Mixed beverage containers, energy drinks",
     specific_areas |-> "Amphitheatre area, beachfront promenade, around surf club"],
    [name |-> <<"K","i","n","g","s"," ","P","a","r","k">>,
     coords |-> <<-319590, 1158331>>, type |-> "park", litter_density |-> 9,
     peak_times |-> "Events, festivals, weekends",
     container_types |-> "Event containers, picnic drinks",
     specific_areas |-> "Synergy Parkland, around DNA Tower, State War Memorial area"],
    [name |-> <<"O","p","t","u","s"," ","S","t","a","d","i","u","m"," ","S","u","r","r","o","u","n","d","s">>,
     coords |-> <<-319513, 1158908>>, type |-> "sports", litter_density |-> 10,
     peak_times |-> "Post-game (AFL, cricket, concerts)",
     container_types |-> "Beer cans, soft drinks, water bottles",
     specific_areas |-> "Burswood Park, around train stations, walkways to stadium"],
    [name |-> <<"N","o","r","t","h","b","r","i","d","g","e"," ","S","t","r","e","e","t","s">>,
     coords |-> <<-319477, 1158537>>, type |-> "entertainment", litter_density |-> 10,
     peak_times |-> "Weekend nights, early mornings",
     container_types |-> "Beer bottles, energy drinks, pre-drinks",
     specific_areas |-> "William Street, James Street, Lake Street, Cultural Centre area"],
    [name |-> <<"F","r","e","m","a","n","t","l","e"," ","B","e","a","c","h">>,
     coords |-> <<-320555, 1157482>>, type |-> "beach", litter_density |-> 9,
     peak_times |-> "Market days, weekends",
     container_types |-> "Tourist containers, market drinks",
     specific_areas |-> "Bathers Beach, around fishing boat harbour, near markets"],
    [name |-> <<"U","W","A"," ","C","a","m","p","u","s"," ","&"," ","S","u","r","r","o","u","n","d","s">>,
     coords |-> <<-319806, 1158178>>, type |-> "education", litter_density |-> 9,
     peak_times |-> "Semester periods, parties",
     container_types |-> "Student drinks, party containers, energy drinks",
     specific_areas |-> "Hackett Drive, around student accommodation, near tavern"],
    [name |-> <<"C","u","r","t","i","n"," ","U","n","i","v","e","r","s","i","t","y"," ","A","r","e","a">>,
     coords |-> <<-320023, 1158957>>, type |-> "education", litter_density |-> 9,
     peak_times |-> "Academic year, student events",
     container_types |-> "Student beverages, sports drinks",
     specific_areas |-> "Around student housing, near tavern, campus green areas"]
  >>

location_aliases ==
  <<
    << <<"c","o","t","t","e","s","l","o","e">>,
      <<"C","o","t","t","e","s","l","o","e"," ","B","e","a","c","h">> >>,
    << <<"c","o","t","t">>,
      <<"C","o","t","t","e","s","l","o","e"," ","B","e","a","c","h">> >>,
    << <<"s","c","a","r","b","o","r","o","u","g","h">>,
      <<"S","c","a","r","b","o","r","o","u","g","h"," ","B","e","a","c","h">> >>,
    << <<"s","c","a","r","b","s">>,
      <<"S","c","a","r","b","o","r","o","u","g","h"," ","B","e","a","c","h">> >>,
    << <<"k","i","n","g","s"," ","p","a","r","k">>,
      <<"K","i","n","g","s"," ","P","a","r","k">> >>,
    << <<"o","p","t","u","s">>,
      <<"O","p","t","u","s"," ","S","t","a","d","i","u","m"," ","S","u","r","r","o","u","n","d","s">> >>,
    << <<"o","p","t","u","s"," ","s","t","a","d","i","u","m">>,
      <<"O","p","t","u","s"," ","S","t","a","d","i","u","m"," ","S","u","r","r","o","u","n","d","s">> >>,
    << <<"n","o","r","t","h","b","r","i","d","g","e">>,
      <<"N","o","r","t","h","b","r","i","d","g","e"," ","S","t","r","e","e","t","s">> >>,
    << <<"f","r","e","m","a","n","t","l","e">>,
      <<"F","r","e","m","a","n","t","l","e"," ","B","e","a","c","h">> >>,
    << <<"f","r","e","o">>,
      <<"F","r","e","m","a","n","t","l","e"," ","B","e","a","c","h">> >>,
    << <<"u","w","a">>,
      <<"U","W","A"," ","C","a","m","p","u","s"," ","&"," ","S","u","r","r","o","u","n","d","s">> >>,
    << <<"c","u","r","t","i","n">>,
      <<"C","u","r","t","i","n"," ","U","n","i","v","e","r","s","i","t","y"," ","A","r","e","a">> >>
  >>

----------------------------------------------------------------------------
(* Text helpers: str.lower, the `in` operator on strings, str.split() *)

UpperLetters == <<"A","B","C","D","E","F","G","H","I","J","K","L","M",
                  "N","O","P","Q","R","S","T","U","V","W","X","Y","Z">>
LowerLetters == <<"a","b","c","d","e","f","g","h","i","j","k","l","m",
                  "n","o","p","q","r","s","t","u","v","w","x","y","z">>

\* the whitespace characters str.split() separates on (those the model uses)
Whitespace == {" ", "\t", "\n"}

lower_char(c) ==
  IF \E i \in 1..Len(UpperLetters) : UpperLetters[i] = c
  THEN LowerLetters[CHOOSE i \in 1..Len(UpperLetters) : UpperLetters[i] = c]
  ELSE c

\* the letters are left in the case they were typed in
keep_case(s) == s

\* str.lower()
lower(s) == [i \in 1..Len(s) |-> lower_char(s[i])]

\* Python's `sub in s` on strings
contains(s, sub) ==
  \E i \in 0..(Len(s) - Len(sub)) :
     \A j \in 1..Len(sub) : s[i + j] = sub[j]

\* str.split(): the maximal runs of non-whitespace characters, in order
RECURSIVE split_from(_, _, _)
split_from(s, i, word) ==
  IF i > Len(s)
  THEN IF word = <<>> THEN <<>> ELSE <<word>>
  ELSE IF s[i] \in Whitespace
       THEN IF word = <<>>
            THEN split_from(s, i + 1, <<>>)
            ELSE <<word>> \o split_from(s, i + 1, <<>>)
       ELSE split_from(s, i + 1, Append(word, s[i]))

\* str.split(" "): every piece between single whitespace characters, the
\* empty ones included
RECURSIVE split_keep_empty_from(_, _, _)
split_keep_empty_from(s, i, word) ==
  IF i > Len(s) THEN <<word>>
  ELSE IF s[i] \in Whitespace
       THEN <<word>> \o split_keep_empty_from(s, i + 1, <<>>)
       ELSE split_keep_empty_from(s, i + 1, Append(word, s[i]))

split_keep_empty(s) == split_keep_empty_from(s, 1, <<>>)

split(s) == split_from(s, 1, <<>>)

----------------------------------------------------------------------------
(* The location resolver: ContainerDataManager.find_location *)

\* the inner loop of the alias step: the first hotspot of that name
RECURSIVE hotspot_named(_, _)
hotspot_named(location_name, h) ==
  IF h > Len(litter_hotspots) THEN None
  ELSE IF litter_hotspots[h].name = location_name THEN litter_hotspots[h]
  ELSE hotspot_named(location_name, h + 1)

\* the alias step scanning the aliases from the last declared to the first
RECURSIVE alias_step_reversed(_, _)
alias_step_reversed(query_lower, a) ==
  LET later == IF a >= Len(location_aliases) THEN None
               ELSE alias_step_reversed(query_lower, a + 1)
  IN  IF later # None THEN later
      ELSE IF contains(query_lower, location_aliases[a][1])
           THEN hotspot_named(location_aliases[a][2], 1)
           ELSE None

\* the alias step, from alias number a on, in declaration order
RECURSIVE alias_step(_, _)
alias_step(query_lower, a) ==
  IF a > Len(location_aliases) THEN None
  ELSE IF /\ contains(query_lower, location_aliases[a][1])
          /\ hotspot_named(location_aliases[a][2], 1) # None
       THEN hotspot_named(location_aliases[a][2], 1)
       ELSE alias_step(query_lower, a + 1)

any_word_in(words, name_lower) ==
  \E w \in 1..Len(words) : contains(name_lower, words[w])

\* the name step with the loops exchanged: the first word that occurs in a
\* name decides
RECURSIVE name_step_by_word(_, _)
name_step_by_word(words, h) ==
  LET hits(w) == { k \in 1..Len(litter_hotspots) :
                    contains(lower(litter_hotspots[k].name), words[w]) }
      first == { w \in 1..Len(words) :
                   /\ hits(w) # {}
                   /\ \A v \in 1..(w - 1) : hits(v) = {} }
  IN  IF first = {} THEN None
      ELSE LET w == CHOOSE w \in first : TRUE
           IN  litter_hotspots[CHOOSE k \in hits(w) : \A l \in hits(w) : k <= l]

\* the name step, from hotspot number h on, in catalog order
RECURSIVE name_step(_, _)
name_step(words, h) ==
  IF h > Len(litter_hotspots) THEN None
  ELSE IF any_word_in(words, lower(litter_hotspots[h].name))
       THEN litter_hotspots[h]
       ELSE name_step(words, h + 1)

\* find_location without the lowercasing of the query
find_location_case_sensitive(q) ==
  LET by_alias == alias_step(q, 1)
  IN  IF by_alias # None THEN by_alias
      ELSE name_step(split(q), 1)

find_location(q) ==
  LET query_lower == lower(q)
      by_alias == alias_step(query_lower, 1)
  IN  IF by_alias # None THEN by_alias
      ELSE name_step(split(query_lower), 1)

----------------------------------------------------------------------------
(* Nearest collection points:                                              *)
(* ContainerDataManager.get_nearby_collection_points                       *)

\* |x1 - x2| + |y1 - y2| in place of the Euclidean norm
distance_manhattan(coord1, coord2) ==
  LET abs(x) == IF x < 0 THEN -x ELSE x
  IN  abs(coord1[1] - coord2[1]) + abs(coord1[2] - coord2[2])

\* the inner function distance, without its square root: the square of the
\* Euclidean norm of the coordinate differences.  The code sorts by the
\* root, which orders the points as its argument does.
distance(coord1, coord2) ==
  (coord1[1] - coord2[1]) * (coord1[1] - coord2[1])
    + (coord1[2] - coord2[2]) * (coord1[2] - coord2[2])

\* point.copy() with the key 'distance' added
with_distance(point, dist) ==
  [name |-> point.name, coords |-> point.coords, type |-> point.type,
   address |-> point.address, refund_rate |-> point.refund_rate,
   hours |-> point.hours, distance |-> dist]

\* the loop that fills points_with_distance, from catalog entry p on
RECURSIVE points_with_distance(_, _)
points_with_distance(coords, p) ==
  IF p > Len(cash_collection_points) THEN <<>>
  ELSE <<with_distance(cash_collection_points[p],
                       distance(coords, cash_collection_points[p].coords))>>
       \o points_with_distance(coords, p + 1)

\* sorted(..., key=distance): a stable sort, so an entry goes behind the
\* entries of the same distance that came before it
insert_sorted(s, x) ==
  LET behind == { i \in 1..Len(s) : s[i].distance <= x.distance }
      at == IF behind = {} THEN 0
            ELSE CHOOSE i \in behind : \A k \in behind : k <= i
  IN  SubSeq(s, 1, at) \o <<x>> \o SubSeq(s, at + 1, Len(s))

\* the list is left in catalog order
not_sorted(s) == s

RECURSIVE sorted_by_distance(_)
sorted_by_distance(s) ==
  IF s = <<>> THEN <<>>
  ELSE insert_sorted(sorted_by_distance(SubSeq(s, 1, Len(s) - 1)), s[Len(s)])

\* the slice s[:n] of Python: a negative n counts from the end
slice_to(s, n) ==
  IF n >= 0
  THEN SubSeq(s, 1, IF n < Len(s) THEN n ELSE Len(s))
  ELSE SubSeq(s, 1, IF Len(s) + n > 0 THEN Len(s) + n ELSE 0)

get_nearby_collection_points(coords, lim) ==
  slice_to(sorted_by_distance(points_with_distance(coords, 1)), lim)

\* the default of the parameter limit
DefaultLimit == 3

\* ContainerDataManager.perth_center
perth_center == <<-319505, 1158605>>

\* PerthContainerLitterMap.litter_hotspots of the map script (src/main.py):
\* the hotspots its map shows.  The script has no aliases, and its names are
\* only copied, so a name is one chunk.
map_litter_hotspots ==
  <<
    [name |-> "Cottesloe Beach",
     coords |-> <<-319959, 1157581>>, type |-> "beach", litter_density |-> 10,
     peak_times |-> "Weekends, summer evenings",
     container_types |-> "Beer cans, soft drink bottles, water bottles"],
    [name |-> "Scarborough Beach",
     coords |-> <<-318944, 1157581>>, type |-> "beach", litter_density |-> 9,
     peak_times |-> "Daily, especially weekends",
     container_types |-> "Mixed beverage containers, energy drinks"],
    [name |-> "City Beach",
     coords |-> <<-319400, 1157600>>, type |-> "beach", litter_density |-> 8,
     peak_times |-> "Weekend afternoons",
     container_types |-> "Beer bottles, soft drinks"],
    [name |-> "Hillarys Beach & Marina",
     coords |-> <<-318194, 1157372>>, type |-> "beach", litter_density |-> 8,
     peak_times |-> "Daily tourist traffic",
     container_types |-> "Restaurant/cafe containers, tourist drinks"],
    [name |-> "Fremantle Beach",
     coords |-> <<-320555, 1157482>>, type |-> "beach", litter_density |-> 9,
     peak_times |-> "Market days, weekends",
     container_types |-> "Tourist containers, market drinks"],
    [name |-> "Rockingham Beach",
     coords |-> <<-322769, 1157297>>, type |-> "beach", litter_density |-> 7,
     peak_times |-> "Family weekends, school holidays",
     container_types |-> "Family drink containers, juice boxes"],
    [name |-> "Kings Park",
     coords |-> <<-319590, 1158331>>, type |-> "park", litter_density |-> 9,
     peak_times |-> "Events, festivals, weekends",
     container_types |-> "Event containers, picnic drinks"],
    [name |-> "Whiteman Park",
     coords |-> <<-318200, 1159100>>, type |-> "park", litter_density |-> 7,
     peak_times |-> "Weekends, school holidays",
     container_types |-> "Family containers, sports drinks"],
    [name |-> "Hyde Park",
     coords |-> <<-319450, 1158550>>, type |-> "park", litter_density |-> 8,
     peak_times |-> "Festivals, weekend events",
     container_types |-> "Event beverages, food court drinks"],
    [name |-> "Optus Stadium Surrounds",
     coords |-> <<-319513, 1158908>>, type |-> "sports", litter_density |-> 10,
     peak_times |-> "Post-game (AFL, cricket, concerts)",
     container_types |-> "Beer cans, soft drinks, water bottles"],
    [name |-> "Perth Arena Area",
     coords |-> <<-319481, 1158614>>, type |-> "sports", litter_density |-> 9,
     peak_times |-> "Post-event evenings",
     container_types |-> "Entertainment event containers"],
    [name |-> "HBF Park Surrounds",
     coords |-> <<-319200, 1158850>>, type |-> "sports", litter_density |-> 8,
     peak_times |-> "Post-match weekends",
     container_types |-> "Sports drinks, beer cans"],
    [name |-> "WACA Ground Area",
     coords |-> <<-319590, 1158745>>, type |-> "sports", litter_density |-> 8,
     peak_times |-> "Cricket match days",
     container_types |-> "Beer cans, soft drinks"],
    [name |-> "Northbridge Streets",
     coords |-> <<-319477, 1158537>>, type |-> "entertainment", litter_density |-> 10,
     peak_times |-> "Weekend nights, early mornings",
     container_types |-> "Beer bottles, energy drinks, pre-drinks"],
    [name |-> "Fremantle Entertainment District",
     coords |-> <<-320555, 1157482>>, type |-> "entertainment", litter_density |-> 8,
     peak_times |-> "Weekend evenings",
     container_types |-> "Craft beer bottles, tourist drinks"],
    [name |-> "Leederville Precinct",
     coords |-> <<-319356, 1158413>>, type |-> "entertainment", litter_density |-> 7,
     peak_times |-> "Friday/Saturday nights",
     container_types |-> "Restaurant drinks, bar containers"],
    [name |-> "Subiaco Entertainment Area",
     coords |-> <<-319474, 1158219>>, type |-> "entertainment", litter_density |-> 7,
     peak_times |-> "Weekend dining/nightlife",
     container_types |-> "Wine bottles, craft beer cans"],
    [name |-> "UWA Campus & Surrounds",
     coords |-> <<-319806, 1158178>>, type |-> "education", litter_density |-> 9,
     peak_times |-> "Semester periods, parties",
     container_types |-> "Student drinks, party containers, energy drinks"],
    [name |-> "Curtin University Area",
     coords |-> <<-320023, 1158957>>, type |-> "education", litter_density |-> 9,
     peak_times |-> "Academic year, student events",
     container_types |-> "Student beverages, sports drinks"],
    [name |-> "Murdoch University Surrounds",
     coords |-> <<-320677, 1158362>>, type |-> "education", litter_density |-> 8,
     peak_times |-> "Student events, orientation",
     container_types |-> "Campus drinks, student party containers"],
    [name |-> "ECU Joondalup Campus",
     coords |-> <<-317448, 1157661>>, type |-> "education", litter_density |-> 7,
     peak_times |-> "Semester periods",
     container_types |-> "Student beverages, energy drinks"],
    [name |-> "Westfield Carousel Surrounds",
     coords |-> <<-320177, 1159344>>, type |-> "shopping", litter_density |-> 8,
     peak_times |-> "Daily shopping traffic",
     container_types |-> "Food court drinks, takeaway containers"],
    [name |-> "Garden City Perimeter",
     coords |-> <<-320600, 1158000>>, type |-> "shopping", litter_density |-> 8,
     peak_times |-> "Weekend shopping",
     container_types |-> "Shopping beverages, food court overflow"],
    [name |-> "Westfield Innaloo Area",
     coords |-> <<-318950, 1158050>>, type |-> "shopping", litter_density |-> 7,
     peak_times |-> "Cinema nights, weekends",
     container_types |-> "Cinema drinks, food court containers"],
    [name |-> "Lakeside Joondalup Surrounds",
     coords |-> <<-317448, 1157661>>, type |-> "shopping", litter_density |-> 7,
     peak_times |-> "Weekend family shopping",
     container_types |-> "Family drinks, food court beverages"],
    [name |-> "Perth Airport Surrounds",
     coords |-> <<-319403, 1159669>>, type |-> "transport", litter_density |-> 8,
     peak_times |-> "Peak travel times",
     container_types |-> "Travel beverages, duty-free containers"],
    [name |-> "Perth Train Station Area",
     coords |-> <<-319505, 1158605>>, type |-> "transport", litter_density |-> 7,
     peak_times |-> "Rush hours, weekends",
     container_types |-> "Commuter drinks, coffee cups with deposit"],
    [name |-> "Elizabeth Quay Bus Area",
     coords |-> <<-319565, 1158614>>, type |-> "transport", litter_density |-> 6,
     peak_times |-> "Peak commuter times",
     container_types |-> "Commuter beverages"],
    [name |-> "Perth Convention Centre Area",
     coords |-> <<-319565, 1158614>>, type |-> "events", litter_density |-> 8,
     peak_times |-> "Post-conference/exhibition",
     container_types |-> "Conference beverages, networking drinks"],
    [name |-> "Crown Perth Complex",
     coords |-> <<-319731, 1158781>>, type |-> "events", litter_density |-> 9,
     peak_times |-> "24/7, peak weekends",
     container_types |-> "Casino drinks, entertainment containers"],
    [name |-> "Claremont Showground",
     coords |-> <<-319850, 1157800>>, type |-> "events", litter_density |-> 9,
     peak_times |-> "Show days, market weekends",
     container_types |-> "Fair drinks, market beverages"],
    [name |-> "Fremantle Markets Area",
     coords |-> <<-320555, 1157482>>, type |-> "markets", litter_density |-> 9,
     peak_times |-> "Weekend market days",
     container_types |-> "Market beverages, tourist drinks, food vendor containers"],
    [name |-> "Subiaco Farmers Market",
     coords |-> <<-319474, 1158219>>, type |-> "markets", litter_density |-> 7,
     peak_times |-> "Saturday mornings",
     container_types |-> "Coffee containers, fresh juice bottles"],
    [name |-> "Kalamunda Markets",
     coords |-> <<-319750, 1160550>>, type |-> "markets", litter_density |-> 6,
     peak_times |-> "Weekend market days",
     container_types |-> "Local beverage containers"],
    [name |-> "Claremont Residential",
     coords |-> <<-319850, 1157800>>, type |-> "residential", litter_density |-> 6,
     peak_times |-> "Bin collection days",
     container_types |-> "Household beverage containers"],
    [name |-> "South Yarra Residential",
     coords |-> <<-319200, 1158400>>, type |-> "residential", litter_density |-> 6,
     peak_times |-> "Bin collection days",
     container_types |-> "Residential drinks, wine bottles"]
  >>

\* an alias for a hotspot that is not in the catalog
catalogs_with_stray_alias ==
  [cash_collection_points |-> cash_collection_points,
   litter_hotspots |-> litter_hotspots,
   location_aliases |->
     Append(location_aliases,
            << <<"s","w","a","n">>, <<"S","w","a","n"," ","R","i","v","e","r">> >>)]

\* the object ContainerDataManager.__init__ builds.  The operators above read
\* the catalogs as __init__ writes them; data_manager is what the object
\* holds after the operations that were run on it.
catalogs ==
  [cash_collection_points |-> cash_collection_points,
   litter_hotspots |-> litter_hotspots,
   location_aliases |-> location_aliases]

\* the key 'distance' is set on the record of the catalog itself
in_place(points, p, dist) ==
  [points EXCEPT ![p] = with_distance(points[p], dist)]

\* point_with_dist = point.copy(); point_with_dist['distance'] = dist: the
\* list points after its entry p was handled.  The key is set on the copy.
after_copy(points, p, dist) == points

\* the list self.cash_collection_points after the loop of
\* get_nearby_collection_points has run over it from entry p on
RECURSIVE points_after_nearby(_, _, _)
points_after_nearby(points, coords, p) ==
  IF p > Len(points) THEN points
  ELSE points_after_nearby(
         after_copy(points, p, distance(coords, points[p].coords)),
         coords, p + 1)

\* the data manager after get_nearby_collection_points(coords, ...)
after_get_nearby(manager, coords) ==
  [manager EXCEPT
     !.cash_collection_points = points_after_nearby(@, coords, 1)]

----------------------------------------------------------------------------
(* The conversational gateway: ContainerChatbot *)

\* ContainerChatbot.system_prompt, one chunk
system_prompt ==
  <<"You are a helpful Container/Bottle Finder Assistant for Perth, Western Australia. ...">>

\* ContainerChatbot.model_name
model_name == "ADD_MODEL_HERE"

\* every message is given the role of the system
format_message_as_system(role, content) ==
  [role |-> "system", content |-> content]

\* format_message
format_message(role, content) == [role |-> role, content |-> content]

DecimalDigits == <<"0","1","2","3","4","5","6","7","8","9">>

\* str(n) of a natural number, as an f-string formats it
RECURSIVE str_int(_)
str_int(n) ==
  IF n < 10 THEN <<DecimalDigits[n + 1]>>
  ELSE str_int(n \div 10) \o <<DecimalDigits[(n % 10) + 1]>>

\* the loop over enumerate(nearby_points, 1), from entry i on
RECURSIVE nearby_lines(_, _)
nearby_lines(nearby_points, i) ==
  IF i > Len(nearby_points) THEN <<>>
  ELSE str_int(i) \o <<". ">> \o nearby_points[i].name
       \o <<" (", nearby_points[i].type, ") - ", nearby_points[i].hours, "\n">>
       \o nearby_lines(nearby_points, i + 1)

get_location_context(input) ==
  LET location == find_location(input)
  IN  IF location = None THEN <<>>
      ELSE <<"\nLOCATION FOUND: ">> \o location.name \o <<"\n">>
           \o <<"Litter Density: ">> \o str_int(location.litter_density)
           \o <<"/10\n">>
           \o <<"Peak Times: ", location.peak_times, "\n">>
           \o <<"Container Types: ", location.container_types, "\n">>
           \o (IF "specific_areas" \in DOMAIN location
               THEN <<"Specific Areas: ", location.specific_areas, "\n">>
               ELSE <<>>)
           \o <<"\nNEARBY COLLECTION POINTS:\n">>
           \o nearby_lines(
                get_nearby_collection_points(location.coords, DefaultLimit), 1)

\* the data manager after get_location_context(input): find_location reads
\* the catalogs, get_nearby_collection_points is called when a hotspot is
\* found
after_get_location_context(manager, input) ==
  LET location == find_location(input)
  IN  IF location = None THEN manager
      ELSE after_get_nearby(manager, location.coords)

\* the message is forwarded as it is, whatever the resolver finds
enhanced_message_bare(msg) == msg

\* call_api, the message to record: the annotation is added when there is one
enhanced_message(msg) ==
  LET location_context == get_location_context(msg)
  IN  IF location_context # <<>>
      THEN msg \o <<"\n\n[LOCATION DATA:">> \o location_context \o <<"]">>
      ELSE msg

\* the transcript is cut to the system message before the new message
record_user_message_trimmed(history, content) ==
  <<history[1], format_message("user", content)>>

\* call_api, self.message_history.append(format_message("user", ...))
record_user_message(history, content) ==
  Append(history, format_message("user", content))

\* the payload holds the system message and the new user message only
payload_of_new_message(history) ==
  [model |-> model_name, messages |-> <<history[1], history[Len(history)]>>,
   temperature |-> "0.7", max_tokens |-> 500]

\* call_api, the payload handed to requests.post
payload_of(history) ==
  [model |-> model_name, messages |-> history,
   temperature |-> "0.7", max_tokens |-> 500]

\* response.json() and data['choices'][0]['message']['content']: the reply,
\* or the exception raised on the way to it
extract_reply(body) ==
  IF ~body.valid_json
  THEN [ok |-> FALSE, error |-> "Expecting value: line 1 column 1 (char 0)"]
  ELSE IF "choices" \notin DOMAIN body.data
  THEN [ok |-> FALSE, error |-> "'choices'"]
  ELSE IF Len(body.data.choices) = 0
  THEN [ok |-> FALSE, error |-> "list index out of range"]
  ELSE IF "message" \notin DOMAIN body.data.choices[1]
  THEN [ok |-> FALSE, error |-> "'message'"]
  ELSE IF "content" \notin DOMAIN body.data.choices[1].message
  THEN [ok |-> FALSE, error |-> "'content'"]
  ELSE [ok |-> TRUE, reply |-> body.data.choices[1].message.content]

\* a failure is recorded in the transcript as an assistant message
after_post_recording_errors(history, outcome) ==
  LET failed(text) ==
        [history |-> Append(history, format_message("assistant", text)),
         returned |-> text]
  IN
  IF outcome.kind = "raise"
  THEN failed(<<"Error: ", outcome.error>>)
  ELSE IF outcome.status_code = 200
       THEN LET got == extract_reply(outcome.body)
            IN  IF got.ok
                THEN [history |-> Append(history,
                                    format_message("assistant", got.reply)),
                      returned |-> got.reply]
                ELSE failed(<<"Error: ", got.error>>)
       ELSE failed(<<"API Error: ">> \o str_int(outcome.status_code)
                     \o <<" - ", outcome.text>>)

\* the reply is returned and not recorded
after_post_forgetting_reply(history, outcome) ==
  IF outcome.kind = "raise"
  THEN [history |-> history, returned |-> <<"Error: ", outcome.error>>]
  ELSE IF outcome.status_code = 200
       THEN LET got == extract_reply(outcome.body)
            IN  IF got.ok
                THEN [history |-> history, returned |-> got.reply]
                ELSE [history |-> history,
                      returned |-> <<"Error: ", got.error>>]
       ELSE [history |-> history,
             returned |-> <<"API Error: ">> \o str_int(outcome.status_code)
                            \o <<" - ", outcome.text>>]

\* a status other than 200 is reported without the body of the response
after_post_status_only(history, outcome) ==
  IF outcome.kind = "raise"
  THEN [history |-> history, returned |-> <<"Error: ", outcome.error>>]
  ELSE IF outcome.status_code = 200
       THEN LET got == extract_reply(outcome.body)
            IN  IF got.ok
                THEN [history |-> Append(history,
                                    format_message("assistant", got.reply)),
                      returned |-> got.reply]
                ELSE [history |-> history,
                      returned |-> <<"Error: ", got.error>>]
       ELSE [history |-> history,
             returned |-> <<"API Error: ">> \o str_int(outcome.status_code)]

\* call_api from requests.post on: the transcript and the value returned,
\* given the transcript the user message was appended to
after_post(history, outcome) ==
  IF outcome.kind = "raise"
  THEN [history |-> history, returned |-> <<"Error: ", outcome.error>>]
  ELSE IF outcome.status_code = 200
       THEN LET got == extract_reply(outcome.body)
            IN  IF got.ok
                THEN [history |-> Append(history,
                                    format_message("assistant", got.reply)),
                      returned |-> got.reply]
                ELSE [history |-> history,
                      returned |-> <<"Error: ", got.error>>]
       ELSE [history |-> history,
             returned |-> <<"API Error: ">> \o str_int(outcome.status_code)
                            \o <<" - ", outcome.text>>]

\* call_api(msg) up to requests.post: the transcript with the user message
before_post(history, msg) ==
  record_user_message(history, enhanced_message(msg))

\* the line is taken as it was typed
strip_nothing(s) == s

\* str.strip()
strip(s) ==
  LET kept == { i \in 1..Len(s) : s[i] \notin Whitespace }
  IN  IF kept = {} THEN <<>>
      ELSE SubSeq(s, CHOOSE i \in kept : \A k \in kept : i <= k,
                     CHOOSE j \in kept : \A k \in kept : k <= j)

----------------------------------------------------------------------------
(* The console of run(): what the commands print.  A printed text is a     *)
(* sequence of chunks; displayed is the sequence of the texts printed.     *)

\* display_welcome, welcome_text as one chunk
welcome_text == <<"\nPERTH CONTAINER FINDER CHATBOT ...">>

\* run, the farewell of quit, exit and q
quit_farewell ==
  <<"\nThanks for using Perth Container Finder! Happy collecting!">>

\* run, the farewell printed on KeyboardInterrupt
interrupt_farewell == <<"\n\nGoodbye! Happy container collecting!">>

\* display_help, help_text as one chunk
help_text == <<"\nCONTAINER FINDER HELP: ...">>

\* run, the answer to an empty line
empty_notice == <<"Please enter a question or command!">>

\* run, the typing indicator printed before call_api
assistant_indicator == <<"\nAssistant: ">>

\* run, what the handler of Exception prints for the exception text e
error_report(e) ==
  << <<"\nError: ", e>>,
     <<"Please try again or type 'help' for assistance.">> >>

\* run, after call_api: print_typing_effect writes the text it is given,
\* character by character
reply_display(text) == <<assistant_indicator, text>>

\* show_stats, stats_text: the sizes of the catalogs
stats_text(manager) ==
  <<"\nPERTH CONTAINER COLLECTION STATISTICS:\n\nCollection Points: ">>
  \o str_int(Len(manager.cash_collection_points))
  \o <<"\nLitter Hotspots: ">>
  \o str_int(Len(manager.litter_hotspots))
  \o <<"\nPotential Daily Value: $">>
  \o str_int(Len(manager.litter_hotspots) * 30)
  \o <<"+\n\nTOP DENSITY AREAS:\n">>

\* an entry goes in front of the entries of the same density
insert_by_density_unstable(s, x) ==
  LET behind == { i \in 1..Len(s) : s[i].litter_density > x.litter_density }
      at == IF behind = {} THEN 0
            ELSE CHOOSE i \in behind : \A k \in behind : k <= i
  IN  SubSeq(s, 1, at) \o <<x>> \o SubSeq(s, at + 1, Len(s))

\* sorted(..., key=litter_density, reverse=True): the sort is stable, so an
\* entry goes behind the entries of greater or equal density that came
\* before it
insert_by_density(s, x) ==
  LET behind == { i \in 1..Len(s) : s[i].litter_density >= x.litter_density }
      at == IF behind = {} THEN 0
            ELSE CHOOSE i \in behind : \A k \in behind : k <= i
  IN  SubSeq(s, 1, at) \o <<x>> \o SubSeq(s, at + 1, Len(s))

RECURSIVE sorted_by_density(_)
sorted_by_density(s) ==
  IF s = <<>> THEN <<>>
  ELSE insert_by_density(sorted_by_density(SubSeq(s, 1, Len(s) - 1)),
                         s[Len(s)])

\* show_stats, the loop over enumerate(sorted_areas[:5], 1), from entry i on
RECURSIVE stats_lines(_, _)
stats_lines(areas, i) ==
  IF i > Len(areas) THEN <<>>
  ELSE << <<"  ">> \o str_int(i) \o <<". ">> \o areas[i].name \o <<" - ">>
          \o str_int(areas[i].litter_density) \o <<"/10 density">> >>
       \o stats_lines(areas, i + 1)

\* show_stats: the texts it prints
show_stats(manager) ==
  <<stats_text(manager)>>
  \o stats_lines(slice_to(sorted_by_density(manager.litter_hotspots), 5), 1)

\* a number written without leading zeros
unpadded(n, width) == str_int(n)

\* a field of strftime: the number in at least width digits, zero-padded
zero_padded(n, width) ==
  LET digits == str_int(n)
  IN  IF Len(digits) >= width THEN digits
      ELSE [i \in 1..(width - Len(digits)) |-> "0"] \o digits

\* datetime.strftime('%Y%m%d_%H%M%S'): the microsecond is not written
strftime(t) ==
  zero_padded(t.year, 4) \o zero_padded(t.month, 2) \o zero_padded(t.day, 2)
  \o <<"_">>
  \o zero_padded(t.hour, 2) \o zero_padded(t.minute, 2)
  \o zero_padded(t.second, 2)

\* generate_map, the name of the file to save
map_filename(t) == <<"perth_containers_">> \o strftime(t) \o <<".html">>

\* generate_map, its first print
map_announcement == <<"\nGenerating interactive map...">>

\* generate_map, the prints after m.save(name) returned
map_saved_display(name) ==
  <<map_announcement, <<"Map saved as: ">> \o name,
    <<"Open in browser to view interactive map!">>>>

\* the exception is swallowed without a word
map_failed_silently(e) == <<map_announcement>>

\* generate_map, the print of its handler of Exception
map_failed_display(e) == <<map_announcement, <<"Error generating map: ">> \o e>>

\* str() of the OSError open() raises for a file it cannot create
cannot_create(name) ==
  <<"[Errno 13] Permission denied: '">> \o name \o <<"'">>

----------------------------------------------------------------------------
(* The queries the resolver is called with *)

Fragments ==
  << <<"c","o","t","t">>,
     <<"e","s","l","o","e">>,
     <<"S","c","a","r","b","s">>,
     <<"F","r","e","m","a","n","t","l","e">>,
     <<"k","i","n","g","s">>,
     <<"p","a","r","k">>,
     <<"B","e","a","c","h">>,
     <<"O","p","t","u","s">>,
     <<" ","S","t","a","d","i","u","m">>,
     <<"x","y","z">>,
     <<"&">>,
     <<" ">>,
     <<"\t">> >>

RECURSIVE Queries(_)
Queries(n) ==
  IF n = 0 THEN { <<>> }
  ELSE LET shorter == Queries(n - 1)
       IN  shorter \cup
           { q \o Fragments[f] : q \in shorter, f \in 1..Len(Fragments) }

ResolverQueries == Queries(MaxPieces)

\* the coordinates get_nearby_collection_points is called with: those of the
\* hotspots, the centre of Perth, and a place as far from Cockburn as from
\* Shenton Park
NearbyCoords ==
  { litter_hotspots[h].coords : h \in 1..Len(litter_hotspots) }
    \cup { perth_center, <<-320400, 1158300>> }

NearbyLimits == (0 - NegLimit)..MaxLimit

\* what requests.post can end as: an exception, or a response
Replies == { <<"Try the pavilion at Cottesloe Beach.">> }

ResponseBodies ==
  { [valid_json |-> TRUE,
     data |-> [choices |-> <<[message |-> [role |-> "assistant",
                                           content |-> r]]>>]] :
      r \in Replies }
  \cup
  { [valid_json |-> TRUE, data |-> [error |-> "rate limited"]],
    [valid_json |-> TRUE,
     data |-> [choices |-> <<[message |-> [role |-> "assistant"]]>>]],
    [valid_json |-> FALSE, data |-> [none |-> TRUE]] }

PostOutcomes ==
  { [kind |-> "raise", error |-> "Connection refused"] }
  \cup
  { [kind |-> "response", status_code |-> 200, text |-> "(body)", body |-> b] :
      b \in ResponseBodies }
  \cup
  { [kind |-> "response", status_code |-> 500,
     text |-> "Internal Server Error",
     body |-> [valid_json |-> FALSE, data |-> [none |-> TRUE]]] }

CottesloeQuestion ==
  <<"W","h","e","r","e"," ","c","a","n"," ","I"," ","f","i","n","d"," ","c","a","n","s"," ","a","t"," ","C","o","t","t","e","s","l","o","e"," ","B","e","a","c","h","?">>

\* the lines typed at the prompt
RawInputs ==
  { CottesloeQuestion,
    <<" ","h","e","l","l","o"," ","t","h","e","r","e">>,
    <<"m","a","p"," ","n","o","w">>,
    <<"q","u","i","t">>,
    <<" ","E","X","I","T"," ">>,
    <<"q">>,
    <<"h","e","l","p">>,
    <<"M","a","p">>,
    <<"s","t","a","t","s">>,
    <<>>,
    <<" "," ">> }

\* values of datetime.now(): two in one second, the second after it, and
\* two days whose month and day have the same digits in a row
Morning ==
  [year |-> 2026, month |-> 11, day |-> 3, hour |-> 9, minute |-> 5,
   second |-> 59, microsecond |-> 0]

MapTimes ==
  { Morning,
    [Morning EXCEPT !.microsecond = 250000],
    [Morning EXCEPT !.minute = 6, !.second = 0],
    [Morning EXCEPT !.month = 1, !.day = 11],
    [Morning EXCEPT !.month = 11, !.day = 1] }

\* the one value of datetime.now() in the sessions of questions
SessionTimes == { Morning }

\* how generate_map can end: the file is saved, building the map raises, or
\* m.save raises because the file cannot be created
MapOutcomes ==
  { [kind |-> "saved"],
    [kind |-> "raise", at |-> "render", error |-> "render failed"],
    [kind |-> "raise", at |-> "save"] }

\* in the sessions of questions the map is saved
SessionMapOutcomes == { o \in MapOutcomes : o.kind = "saved" }

\* the question of the sessions at the console, and the ways it fails
ConsoleQuestions == { <<"m","a","p"," ","n","o","w">> }

ConsolePostOutcomes ==
  { o \in PostOutcomes : o.kind = "raise" \/ o.status_code # 200 }

----------------------------------------------------------------------------
(* The resolver called on its own: one call find_location(query) *)

InitRest ==
  /\ message_history = <<>>
  /\ user_input = <<>>
  /\ message = <<>>
  /\ net = None
  /\ response = <<>>
  /\ posts = <<>>
  /\ data_manager = catalogs
  /\ displayed = <<>>
  /\ raised = None
  /\ now = None
  /\ filename = <<>>
  /\ files = {}

InitFind ==
  /\ pc = "call"
  /\ query \in ResolverQueries
  /\ found = None
  /\ location_coords = <<0, 0>>
  /\ limit = 0
  /\ nearby = <<>>
  /\ InitRest

CallFindLocation ==
  /\ pc = "call"
  /\ pc' = "returned"
  /\ found' = find_location(query)
  /\ UNCHANGED <<query, nearbyVars, gatewayVars, data_manager, consoleVars,
                 mapVars>>

SpecFind == InitFind /\ [][CallFindLocation]_vars

----------------------------------------------------------------------------
(* get_nearby_collection_points called on its own: one call                *)
(* get_nearby_collection_points(location_coords, limit)                    *)

InitNear ==
  /\ pc = "call"
  /\ query = <<>>
  /\ found = None
  /\ location_coords \in NearbyCoords
  /\ limit \in NearbyLimits
  /\ nearby = <<>>
  /\ InitRest

CallGetNearby ==
  /\ pc = "call"
  /\ pc' = "returned"
  /\ nearby' = get_nearby_collection_points(location_coords, limit)
  /\ data_manager' = after_get_nearby(data_manager, location_coords)
  /\ UNCHANGED <<location_coords, limit, resolverVars, gatewayVars,
                 consoleVars, mapVars>>

SpecNear == InitNear /\ [][CallGetNearby]_vars

----------------------------------------------------------------------------
(* The chatbot: ContainerChatbot.__init__ and the loop of run() *)

Init ==
  /\ pc = "prompt"
  /\ query = <<>>
  /\ found = None
  /\ location_coords = <<0, 0>>
  /\ limit = 0
  /\ nearby = <<>>
  /\ message_history = <<format_message("system", system_prompt)>>
  /\ user_input = <<>>
  /\ message = <<>>
  /\ net = None
  /\ response = <<>>
  /\ posts = <<>>
  /\ data_manager = catalogs
  /\ displayed = <<welcome_text>>
  /\ raised = None
  /\ now = None
  /\ filename = <<>>
  /\ files = {}

QuitWords == { <<"q","u","i","t">>, <<"e","x","i","t">>, <<"q">> }
HelpWord == <<"h","e","l","p">>
MapWord == <<"m","a","p">>
StatsWord == <<"s","t","a","t","s">>

\* user_input = input(...).strip(); quit, exit, q: break
RunQuit ==
  /\ pc = "prompt"
  /\ \E raw \in RawInputs :
        /\ lower(strip(raw)) \in QuitWords
        /\ user_input' = strip(raw)
  /\ displayed' = <<quit_farewell>>
  /\ raised' = None
  /\ pc' = "exited"
  /\ UNCHANGED <<resolverVars, nearbyVars, message_history, message, net,
                 response, posts, data_manager, mapVars>>

\* help: display_help(); continue
RunHelp ==
  /\ pc = "prompt"
  /\ \E raw \in RawInputs :
        /\ lower(strip(raw)) \notin QuitWords
        /\ lower(strip(raw)) = HelpWord
        /\ user_input' = strip(raw)
  /\ displayed' = <<help_text>>
  /\ raised' = None
  /\ UNCHANGED <<pc, resolverVars, nearbyVars, message_history, message, net,
                 response, posts, data_manager, mapVars>>

\* map: generate_map(); continue.  generate_map reads the catalogs, reads
\* the clock once and saves the map under the name built from it; what it
\* raises on the way it prints itself.
RunMap(Times, Outcomes) ==
  /\ pc = "prompt"
  /\ \E raw \in RawInputs :
        /\ lower(strip(raw)) \notin QuitWords \cup {HelpWord}
        /\ lower(strip(raw)) = MapWord
        /\ user_input' = strip(raw)
  /\ \E outcome \in Outcomes : \E t \in Times :
        IF outcome.kind = "raise" /\ outcome.at = "render"
        THEN /\ displayed' = map_failed_display(<<outcome.error>>)
             /\ UNCHANGED mapVars
        ELSE /\ now' = t
             /\ filename' = map_filename(t)
             /\ IF outcome.kind = "saved"
                THEN /\ files' = files \cup {filename'}
                     /\ displayed' = map_saved_display(filename')
                ELSE /\ files' = files
                     /\ displayed' =
                          map_failed_display(cannot_create(filename'))
  /\ raised' = None
  /\ UNCHANGED <<pc, resolverVars, nearbyVars, message_history, message, net,
                 response, posts, data_manager>>

\* stats: show_stats(); continue
RunStats ==
  /\ pc = "prompt"
  /\ \E raw \in RawInputs :
        /\ lower(strip(raw)) \notin QuitWords \cup {HelpWord, MapWord}
        /\ lower(strip(raw)) = StatsWord
        /\ user_input' = strip(raw)
  /\ displayed' = show_stats(data_manager)
  /\ raised' = None
  /\ UNCHANGED <<pc, resolverVars, nearbyVars, message_history, message, net,
                 response, posts, data_manager, mapVars>>

\* empty input: reprompt
RunEmpty ==
  /\ pc = "prompt"
  /\ \E raw \in RawInputs :
        /\ lower(strip(raw)) \notin
             QuitWords \cup {HelpWord, MapWord, StatsWord}
        /\ strip(raw) = <<>>
        /\ user_input' = strip(raw)
  /\ displayed' = <<empty_notice>>
  /\ raised' = None
  /\ UNCHANGED <<pc, resolverVars, nearbyVars, message_history, message, net,
                 response, posts, data_manager, mapVars>>

\* anything else: response = self.call_api(user_input);
\* self.print_typing_effect(response)
RunSend(Lines, Outcomes) ==
  /\ pc = "prompt"
  /\ Len(posts) < MaxSends
  /\ \E raw \in Lines :
        /\ lower(strip(raw)) \notin QuitWords \cup {HelpWord, MapWord, StatsWord}
        /\ strip(raw) # <<>>
        /\ user_input' = strip(raw)
        /\ message' = strip(raw)
        /\ data_manager' = after_get_location_context(data_manager, strip(raw))
        \* the payload's messages are the transcript the user message was
        \* appended to
        /\ posts' = Append(posts,
                           payload_of(before_post(message_history, strip(raw))))
        /\ \E outcome \in Outcomes :
              LET appended == posts'[Len(posts')].messages
              IN  /\ net' = outcome
                  /\ message_history' = after_post(appended, outcome).history
                  /\ response' = after_post(appended, outcome).returned
  /\ displayed' = reply_display(response')
  /\ raised' = None
  /\ UNCHANGED <<pc, resolverVars, nearbyVars, mapVars>>

\* KeyboardInterrupt while input() waits: farewell, break
RunInterrupt ==
  /\ pc = "prompt"
  /\ pc' = "exited"
  /\ raised' = [exception |-> "KeyboardInterrupt", text |-> ""]
  /\ displayed' = <<interrupt_farewell>>
  /\ UNCHANGED <<resolverVars, nearbyVars, gatewayVars, data_manager,
                 mapVars>>

\* input() raises EOFError (the input stream has ended): the handler of
\* Exception prints it and the loop goes on
RunEndOfInput ==
  /\ pc = "prompt"
  /\ raised' = [exception |-> "EOFError", text |-> "EOF when reading a line"]
  /\ displayed' = error_report(raised'.text)
  /\ UNCHANGED <<pc, resolverVars, nearbyVars, gatewayVars, data_manager,
                 mapVars>>

\* a session of questions and commands; the input stream does not end
Next ==
  \/ RunQuit
  \/ RunHelp
  \/ RunMap(SessionTimes, SessionMapOutcomes)
  \/ RunStats
  \/ RunEmpty
  \/ RunSend(RawInputs, PostOutcomes)
  \/ RunInterrupt

Spec == Init /\ [][Next]_vars

----------------------------------------------------------------------------
(* A session at the console: the commands with every way generate_map can *)
(* end and several values of the clock, the end of the input stream, and   *)
(* questions that the gateway fails to answer                              *)

NextConsole ==
  \/ RunQuit
  \/ RunHelp
  \/ RunMap(MapTimes, MapOutcomes)
  \/ RunStats
  \/ RunEmpty
  \/ RunSend(ConsoleQuestions, ConsolePostOutcomes)
  \/ RunInterrupt
  \/ RunEndOfInput

SpecConsole == Init /\ [][NextConsole]_vars

----------------------------------------------------------------------------
(* Properties of the resolver *)

\* sub occurs in s as a contiguous run of characters
Occurs(sub, s) ==
  \E i \in 1..(Len(s) - Len(sub) + 1) : SubSeq(s, i, i + Len(sub) - 1) = sub

\* where sub first occurs in s (0: nowhere)
FirstOccurrence(sub, s) ==
  LET at == { i \in 1..(Len(s) - Len(sub) + 1) :
                SubSeq(s, i, i + Len(sub) - 1) = sub }
  IN  IF at = {} THEN 0 ELSE CHOOSE i \in at : \A k \in at : i <= k

\* the whitespace-separated tokens of s: its maximal whitespace-free runs
Tokens(s) ==
  LET starts == { i \in 1..Len(s) :
                    /\ s[i] \notin Whitespace
                    /\ (i = 1 \/ s[i - 1] \in Whitespace) }
      ends == { j \in 1..Len(s) :
                  /\ s[j] \notin Whitespace
                  /\ (j = Len(s) \/ s[j + 1] \in Whitespace) }
  IN  { SubSeq(s, i, CHOOSE j \in ends : j >= i /\ \A k \in ends : k >= i => j <= k) :
          i \in starts }

\* the declared aliases (by number) that occur in the lowercased query
AliasesIn(q) ==
  LET folded == lower(q)
  IN  { a \in 1..Len(location_aliases) : Occurs(location_aliases[a][1], folded) }

FirstAliasIn(q) ==
  LET occurring == AliasesIn(q)
  IN  CHOOSE a \in occurring : \A b \in occurring : a <= b

\* the hotspots (by number) whose lowercased name holds a token of the
\* lowercased query
NameMatches(q) ==
  LET tokens == Tokens(lower(q))
  IN  { h \in 1..Len(litter_hotspots) :
          \E t \in tokens : Occurs(t, lower(litter_hotspots[h].name)) }

FirstNameMatch(q) ==
  LET matching == NameMatches(q)
  IN  CHOOSE h \in matching : \A k \in matching : h <= k

\* the hotspot an alias maps to
HotspotOfAlias(a) ==
  litter_hotspots[CHOOSE k \in 1..Len(litter_hotspots) :
                     litter_hotspots[k].name = location_aliases[a][2]]

Returned == pc = "returned"

\* C1 as stated: for every query that contains a declared alias (in any
\* letter case, with any surrounding text), find_location returns the
\* hotspot that this alias maps to.
C1_EveryContainedAliasDecides ==
  Returned =>
    \A a \in AliasesIn(query) : found = HotspotOfAlias(a)

\* C1, amended: for every query that contains a declared alias (in any
\* letter case, with any surrounding text) and no earlier-declared alias of
\* another hotspot, find_location returns the hotspot this alias maps to.
C1_AliasDecidesUnlessShadowed ==
  Returned =>
    LET occurring == AliasesIn(query)
    IN  \A a \in occurring :
           (\A b \in occurring :
               b < a => location_aliases[b][2] = location_aliases[a][2])
           => found = HotspotOfAlias(a)

\* an alias written in another letter case, inside other text, has decided
C1_Witness ==
  /\ Returned
  /\ \E a \in AliasesIn(query) :
        /\ ~Occurs(location_aliases[a][1], query)
        /\ Len(query) > Len(location_aliases[a][1])
        /\ found = HotspotOfAlias(a)

\* C2: when the lowercased query contains several declared aliases,
\* find_location returns the hotspot of the alias declared first (not the
\* longest, nor the one that comes first in the query), and the alias step
\* takes precedence over the name-token step.
C2_FirstDeclaredAliasWins ==
  LET occurring == AliasesIn(query)
      first == CHOOSE a \in occurring : \A b \in occurring : a <= b
  IN  (Returned /\ occurring # {}) => found = HotspotOfAlias(first)

\* two aliases of different hotspots occur; the one declared later is longer
\* and comes first in the query, and a token of the query occurs in the name
\* of a hotspot that is earlier in the catalog than the one returned
C2_Witness ==
  /\ Returned
  /\ \E a \in AliasesIn(query) : \E b \in AliasesIn(query) :
        /\ a < b
        /\ a = FirstAliasIn(query)
        /\ location_aliases[a][2] # location_aliases[b][2]
        /\ Len(location_aliases[b][1]) > Len(location_aliases[a][1])
        /\ FirstOccurrence(location_aliases[b][1], lower(query))
             < FirstOccurrence(location_aliases[a][1], lower(query))
        /\ found = HotspotOfAlias(a)
  /\ NameMatches(query) # {}
  /\ litter_hotspots[FirstNameMatch(query)] # found

\* C3: when no alias occurs in the query, find_location returns the first
\* hotspot in catalog order whose lowercased name contains at least one
\* whitespace-separated token of the lowercased query, whichever token it is.
C3_FirstHotspotWithTokenWins ==
  (Returned /\ AliasesIn(query) = {} /\ NameMatches(query) # {}) =>
    found = litter_hotspots[FirstNameMatch(query)]

\* the first token of the query occurs only in names of later hotspots, a
\* later token occurs in the name of the hotspot returned
C3_Witness ==
  /\ Returned
  /\ AliasesIn(query) = {}
  /\ \E h \in NameMatches(query) :
        /\ found = litter_hotspots[h]
        /\ \E t \in Tokens(lower(query)) :
              /\ FirstOccurrence(t, lower(query)) = 1
              /\ ~Occurs(t, lower(litter_hotspots[h].name))
              /\ \E k \in NameMatches(query) :
                    k > h /\ Occurs(t, lower(litter_hotspots[k].name))

\* C4: for every query that contains no declared alias and none of whose
\* whitespace tokens occurs in a hotspot name (the empty and the
\* whitespace-only query included), find_location returns None.
C4_NoMatchReturnsNone ==
  (Returned /\ AliasesIn(query) = {} /\ NameMatches(query) = {}) =>
    found = None

\* None was returned for a query of several whitespace characters
C4_Witness ==
  /\ Returned
  /\ found = None
  /\ Len(query) >= 2
  /\ \A i \in 1..Len(query) : query[i] \in Whitespace

\* None was returned for a query that has a token
C4_WitnessToken ==
  /\ Returned
  /\ found = None
  /\ Tokens(lower(query)) # {}

----------------------------------------------------------------------------
(* Properties of get_nearby_collection_points *)

\* the square of the planar Euclidean distance on raw differences
SquaredDistance(c, d) ==
  (c[1] - d[1]) * (c[1] - d[1]) + (c[2] - d[2]) * (c[2] - d[2])

\* the catalog number of a returned entry (names are unique)
CatalogIndex(entry) ==
  CHOOSE p \in 1..Len(cash_collection_points) :
     cash_collection_points[p].name = entry.name

\* catalog entry p comes before catalog entry r for the coordinate c: it is
\* nearer, or as near and earlier in the catalog
Before(c, p, r) ==
  LET dp == SquaredDistance(c, cash_collection_points[p].coords)
      dr == SquaredDistance(c, cash_collection_points[r].coords)
  IN  dp < dr \/ (dp = dr /\ p < r)

\* the list is the first n catalog entries in the order Before
IsNearestList(list, c, n) ==
  /\ Len(list) = n
  /\ \A i \in 1..Len(list) :
        /\ \E p \in 1..Len(cash_collection_points) :
              cash_collection_points[p].name = list[i].name
        /\ cash_collection_points[CatalogIndex(list[i])].coords = list[i].coords
  /\ \A i \in 1..Len(list) : \A j \in 1..Len(list) :
        i < j => Before(c, CatalogIndex(list[i]), CatalogIndex(list[j]))
  /\ \A p \in 1..Len(cash_collection_points) :
        (\A i \in 1..Len(list) : CatalogIndex(list[i]) # p)
        => \A i \in 1..Len(list) : Before(c, CatalogIndex(list[i]), p)

Min(a, b) == IF a < b THEN a ELSE b

\* C5 as stated: for every coordinate pair and every limit k,
\* get_nearby_collection_points returns exactly min(k, |catalog|) entries,
\* ascending by planar Euclidean distance, equal distances in catalog order.
C5_NearestForEveryLimit ==
  Returned =>
    IsNearestList(nearby, location_coords,
                  Min(limit, Len(cash_collection_points)))

\* C5, amended: for every coordinate pair and every limit k >= 0,
\* get_nearby_collection_points returns exactly min(k, |catalog|) entries,
\* ascending by planar Euclidean distance, equal distances in catalog order.
C5_NearestForNaturalLimit ==
  (Returned /\ limit >= 0) =>
    IsNearestList(nearby, location_coords,
                  Min(limit, Len(cash_collection_points)))

\* a truncated list was returned in which two entries are equally far
C5_Witness ==
  /\ Returned
  /\ limit >= 2
  /\ Len(nearby) = limit
  /\ limit < Len(cash_collection_points)
  /\ \E i \in 1..(Len(nearby) - 1) :
        /\ SquaredDistance(location_coords, nearby[i].coords)
             = SquaredDistance(location_coords, nearby[i + 1].coords)
        /\ CatalogIndex(nearby[i]) < CatalogIndex(nearby[i + 1])

----------------------------------------------------------------------------
(* Properties of the gateway *)

IsPrefix(s, t) == Len(s) <= Len(t) /\ SubSeq(t, 1, Len(s)) = s

\* this step is a send: one more payload has been posted
Sent == Len(posts') = Len(posts) + 1

\* the body of a response holds the reply field
HasReply(body) ==
  /\ body.valid_json
  /\ "choices" \in DOMAIN body.data
  /\ Len(body.data.choices) >= 1
  /\ "message" \in DOMAIN body.data.choices[1]
  /\ "content" \in DOMAIN body.data.choices[1].message

\* the send failed: the request raised, the status is not 200, or the body
\* lacks the reply field
Failed(outcome) ==
  \/ outcome.kind = "raise"
  \/ outcome.status_code # 200
  \/ ~HasReply(outcome.body)

ReplyIn(outcome) == outcome.body.data.choices[1].message.content

IsErrorText(text) ==
  Len(text) >= 2 /\ text[1] \in {"Error: ", "API Error: "}

\* C6: when a send fails for any reason (non-200 status, network error
\* raised by the request, 200 response whose body lacks the reply field),
\* call_api returns an error string and the transcript afterwards is the
\* transcript before plus exactly one user message; no assistant message is
\* appended.
C6_FailedSendAddsOnlyUserMessage ==
  [][ (Sent /\ Failed(net')) =>
        /\ Len(message_history') = Len(message_history) + 1
        /\ IsPrefix(message_history, message_history')
        /\ message_history'[Len(message_history')].role = "user"
        /\ IsErrorText(response') ]_vars

\* a send got a 200 response without the reply field, after a send that
\* failed as well
C6_Witness ==
  /\ Len(posts) = 2
  /\ net.kind = "response"
  /\ net.status_code = 200
  /\ ~HasReply(net.body)
  /\ Len(message_history) = 3
  /\ message_history[2].role = "user"
  /\ message_history[3].role = "user"
  /\ IsErrorText(response)

\* C7: when a send receives HTTP 200 with a well-formed body, the transcript
\* afterwards is the transcript before plus the (possibly annotated) user
\* message followed by one assistant message whose content is the reply, and
\* the value returned is that reply.
C7_SuccessfulSendAddsUserAndAssistant ==
  [][ (Sent /\ ~Failed(net')) =>
        /\ Len(message_history') = Len(message_history) + 2
        /\ IsPrefix(message_history, message_history')
        /\ message_history'[Len(message_history) + 1].role = "user"
        /\ IsPrefix(message',
                    message_history'[Len(message_history) + 1].content)
        /\ message_history'[Len(message_history) + 2]
             = [role |-> "assistant", content |-> ReplyIn(net')]
        /\ response' = ReplyIn(net') ]_vars

\* a send with an annotated message was answered
C7_Witness ==
  /\ posts # <<>>
  /\ ~Failed(net)
  /\ message_history[Len(message_history)].role = "assistant"
  /\ message_history[Len(message_history)].content = response
  /\ message_history[Len(message_history) - 1].role = "user"
  /\ Len(message_history[Len(message_history) - 1].content) > Len(message)
  /\ IsPrefix(message, message_history[Len(message_history) - 1].content)

\* C8: the transcript starts as exactly one system message and, over any
\* sequence of inputs at the prompt and sends (successful or failed), only
\* grows: each transcript is a prefix of the next, no message is removed,
\* reordered or rewritten.
C8_TranscriptOnlyGrows ==
  /\ Len(message_history) = 1
  /\ message_history[1] = [role |-> "system", content |-> system_prompt]
  /\ [][IsPrefix(message_history, message_history')]_vars

\* the transcript holds a failed send followed by an answered one, and the
\* loop has ended
C8_Witness ==
  /\ pc = "exited"
  /\ Len(message_history) = 4
  /\ message_history[1].role = "system"
  /\ message_history[2].role = "user"
  /\ message_history[3].role = "user"
  /\ message_history[4].role = "assistant"

\* where sub first occurs in s at or after position from (0: nowhere)
FirstOccurrenceFrom(sub, s, from) ==
  LET at == { i \in from..(Len(s) - Len(sub) + 1) :
                SubSeq(s, i, i + Len(sub) - 1) = sub }
  IN  IF at = {} THEN 0 ELSE CHOOSE i \in at : \A k \in at : i <= k

\* the items, from number k on, occur in s one after the other, from
\* position from on
RECURSIVE HoldsInOrder(_, _, _, _)
HoldsInOrder(s, items, k, from) ==
  IF k > Len(items) THEN TRUE
  ELSE LET at == FirstOccurrenceFrom(items[k], s, from)
       IN  at # 0 /\ HoldsInOrder(s, items, k + 1, at + Len(items[k]))

\* the collection point that is number i in the order Before for c
NearestPoint(c, i) ==
  cash_collection_points[
    CHOOSE p \in 1..Len(cash_collection_points) :
       Cardinality({ r \in 1..Len(cash_collection_points) : Before(c, r, p) })
         = i - 1]

PointItems(point) == <<point.name, <<point.type>>, <<point.hours>>>>

\* what the annotation of a hotspot holds, in order
AnnotationItems(hotspot) ==
  LET first == NearestPoint(hotspot.coords, 1)
      second == NearestPoint(hotspot.coords, 2)
      third == NearestPoint(hotspot.coords, 3)
  IN  <<hotspot.name, str_int(hotspot.litter_density),
        <<hotspot.peak_times>>, <<hotspot.container_types>>>>
      \o (IF "specific_areas" \in DOMAIN hotspot
          THEN <<<<hotspot.specific_areas>>>> ELSE <<>>)
      \o PointItems(first) \o PointItems(second) \o PointItems(third)

\* C9: the user message a send records is the bare user text exactly when
\* find_location returns None for that text; when a hotspot is found it is
\* the user text followed by an annotation holding the hotspot's name,
\* density, peak times, container types, specific areas (if the record has
\* them) and the 3 nearest collection points (name, category, hours) in
\* ascending order of distance.
C9_RecordedMessageIsAnnotatedIffFound ==
  posts # <<>> =>
    LET recorded == message_history[Len(posts[Len(posts)].messages)]
        hotspot == find_location(message)
        annotation == SubSeq(recorded.content, Len(message) + 1,
                             Len(recorded.content))
        items == AnnotationItems(hotspot)
    IN  /\ recorded.role = "user"
        /\ IsPrefix(message, recorded.content)
        /\ (hotspot = None) <=> (recorded.content = message)
        /\ hotspot # None =>
             /\ HoldsInOrder(annotation, items, 1, 1)
             /\ ~Occurs(NearestPoint(hotspot.coords, 4).name, annotation)

\* the transcript holds a bare user message and an annotated one
C9_Witness ==
  /\ Len(message_history) >= 3
  /\ \E i \in 2..Len(message_history) : \E j \in 2..Len(message_history) :
        /\ message_history[i].role = "user"
        /\ message_history[j].role = "user"
        /\ Occurs(<<"\n\n[LOCATION DATA:">>, message_history[i].content)
        /\ find_location(message_history[j].content) = None
        /\ ~Occurs(<<"\n\n[LOCATION DATA:">>, message_history[j].content)

CottesloeCoords == <<-319959, 1157581>>

CottesloeName == <<"C","o","t","t","e","s","l","o","e"," ","B","e","a","c","h">>

\* C10: for the query "Where can I find cans at Cottesloe Beach?" the
\* resolver returns the Cottesloe Beach hotspot (density 10), and the
\* annotation lists the three collection points of the catalog that are
\* nearest by planar distance to (-31.9959, 115.7581), in ascending order of
\* that distance.
C10_CottesloeQuestionAnnotation ==
  \A i \in 1..Len(message_history) :
     (/\ message_history[i].role = "user"
      /\ IsPrefix(CottesloeQuestion, message_history[i].content))
     =>
     LET hotspot == find_location(CottesloeQuestion)
         annotation == SubSeq(message_history[i].content,
                              Len(CottesloeQuestion) + 1,
                              Len(message_history[i].content))
     IN  /\ hotspot # None
         /\ hotspot.name = CottesloeName
         /\ hotspot.litter_density = 10
         /\ hotspot.coords = CottesloeCoords
         /\ HoldsInOrder(annotation,
                         <<CottesloeName, <<"1", "0">>,
                           NearestPoint(CottesloeCoords, 1).name,
                           NearestPoint(CottesloeCoords, 2).name,
                           NearestPoint(CottesloeCoords, 3).name>>, 1, 1)
         /\ \A n \in 4..Len(cash_collection_points) :
               ~Occurs(NearestPoint(CottesloeCoords, n).name, annotation)

\* the Cottesloe question has been sent and recorded
C10_Witness ==
  \E i \in 2..Len(message_history) :
     /\ message_history[i].role = "user"
     /\ IsPrefix(CottesloeQuestion, message_history[i].content)
     /\ Len(message_history[i].content) > Len(CottesloeQuestion)

----------------------------------------------------------------------------
(* Properties of the loop of run() *)

\* the response to the last request had a status other than 200
Refused(outcome) == outcome.kind = "response" /\ outcome.status_code # 200

\* the decimal digits of a status code of three digits
StatusDigits(code) ==
  <<DecimalDigits[(code \div 100) + 1], DecimalDigits[((code \div 10) % 10) + 1],
    DecimalDigits[(code % 10) + 1]>>

\* C11: when the remote endpoint answers a send with a status other than 200
\* (e.g. HTTP 500), the value returned and displayed is exactly the error
\* string built from the status code and the raw response body, the
\* transcript still holds the user's unanswered message as its last
\* message, and the loop goes on to the next prompt.
C11_RefusedSendIsDisplayedAndLoopGoesOn ==
  [][ (Sent /\ Refused(net')) =>
        /\ response' = <<"API Error: ">> \o StatusDigits(net'.status_code)
                         \o <<" - ", net'.text>>
        /\ displayed' = <<assistant_indicator, response'>>
        /\ Len(message_history') = Len(message_history) + 1
        /\ IsPrefix(message_history, message_history')
        /\ message_history'[Len(message_history')].role = "user"
        /\ IsPrefix(user_input', message_history'[Len(message_history')].content)
        /\ pc' = "prompt" ]_vars

\* the endpoint answered 500 to a question and the error string is on
\* display
C11_Witness ==
  /\ pc = "prompt"
  /\ posts # <<>>
  /\ Refused(net)
  /\ net.status_code = 500
  /\ response = <<"API Error: ", "5", "0", "0", " - ", "Internal Server Error">>
  /\ displayed = <<assistant_indicator, response>>
  /\ message_history[Len(message_history)].role = "user"

\* the step read a line at the prompt and no exception reached the handlers
\* of run()
ReadLine == pc = "prompt" /\ raised' = None

\* the text is empty or holds white space only
IsBlank(text) == \A i \in 1..Len(text) : text[i] \in {" ", "\t", "\n"}

\* the commands help, map and stats as they are typed in the sessions
TypedCommands ==
  { <<"h","e","l","p">>, <<"M","a","p">>, <<"s","t","a","t","s">> }

\* C12: an empty or whitespace-only input and the commands help, map and
\* stats never contact the network (no request is posted) and leave the
\* transcript unchanged; the loop then prompts again.
C12_CommandsLeaveGatewayAlone ==
  [][ (ReadLine /\ (IsBlank(user_input') \/ user_input' \in TypedCommands)) =>
        /\ posts' = posts
        /\ net' = net
        /\ message_history' = message_history
        /\ pc' = "prompt" ]_vars

\* after two questions and a map command an empty line was answered with
\* the notice
C12_Witness ==
  /\ pc = "prompt"
  /\ Len(posts) = 2
  /\ Len(message_history) >= 3
  /\ files # {}
  /\ user_input = <<>>
  /\ displayed = <<empty_notice>>

\* the words that end the loop, as they are typed in the sessions
TypedQuitWords == { <<"q","u","i","t">>, <<"E","X","I","T">>, <<"q">> }

\* the text neither starts nor ends with white space
IsTrimmed(text) ==
  text # <<>> => ~IsBlank(<<text[1]>>) /\ ~IsBlank(<<text[Len(text)]>>)

\* the last message of the last request posted
LastPosted(requests) ==
  LET messages == requests[Len(requests)].messages
  IN  messages[Len(messages)]

\* C13: the loop dispatches on the whole trimmed line, whatever the case of
\* its letters: quit, exit and q end the loop; help, map and stats run
\* their command; every other line that is not empty (also a command word
\* followed by more text, such as "map now") is forwarded to the gateway
\* exactly once.
C13_DispatchOnWholeTrimmedLine ==
  [][ ReadLine =>
        /\ IsTrimmed(user_input')
        /\ (user_input' \in TypedQuitWords) <=> (pc' = "exited")
        /\ user_input' = <<"h","e","l","p">> => displayed' = <<help_text>>
        /\ user_input' = <<"M","a","p">> => displayed'[1] = map_announcement
        /\ user_input' = <<"s","t","a","t","s">> =>
              displayed'[1] = stats_text(catalogs)
        /\ user_input' = <<>> => displayed' = <<empty_notice>>
        /\ IF user_input' \in TypedQuitWords \cup TypedCommands \cup {<<>>}
           THEN posts' = posts
           ELSE /\ Len(posts') = Len(posts) + 1
                /\ message' = user_input'
                /\ LastPosted(posts').role = "user"
                /\ IsPrefix(user_input', LastPosted(posts').content)
                /\ displayed' = <<assistant_indicator, response'>> ]_vars

\* "map now" was forwarded as a question, "Map" saved a map, and " EXIT "
\* ended the loop
C13_Witness ==
  /\ pc = "exited"
  /\ user_input = <<"E","X","I","T">>
  /\ files # {}
  /\ \E i \in 1..Len(message_history) :
        message_history[i] =
          [role |-> "user", content |-> <<"m","a","p"," ","n","o","w">>]

\* the handlers of run() caught the exception named
Caught(exception, name) == exception # None /\ exception.exception = name

\* the texts end with one that reports an error
ReportsError(texts) ==
  /\ texts # <<>>
  /\ texts[Len(texts)] # <<>>
  /\ texts[Len(texts)][1] \in
       {"Error: ", "API Error: ", "Error generating map: ",
        "Please try again or type 'help' for assistance."}

\* C14: the loop ends only on quit, exit or q, or on a keyboard interrupt
\* (which prints a farewell and ends the loop normally); every other
\* failure (an error of the gateway, an error while the map is built or
\* its file is written, any other exception inside an iteration) becomes a
\* displayed message and the loop goes on with the next prompt.
C14_OnlyQuitAndInterruptEndTheLoop ==
  [][ /\ pc' = "exited" =>
           \/ /\ raised' = None
              /\ user_input' \in TypedQuitWords
              /\ displayed' = <<quit_farewell>>
           \/ /\ Caught(raised', "KeyboardInterrupt")
              /\ displayed' = <<interrupt_farewell>>
      /\ (Sent /\ Failed(net')) =>
           /\ pc' = "prompt"
           /\ displayed' = <<assistant_indicator, response'>>
           /\ ReportsError(displayed')
      /\ (ReadLine /\ user_input' = <<"M","a","p">>) =>
           /\ pc' = "prompt"
           /\ \/ /\ filename' \in files'
                 /\ displayed' = map_saved_display(filename')
              \/ /\ files' = files
                 /\ Len(displayed') = 2
                 /\ ReportsError(displayed')
      /\ (raised' # None /\ ~Caught(raised', "KeyboardInterrupt")) =>
           /\ pc' = "prompt"
           /\ displayed'[1] = <<"\nError: ", raised'.text>>
           /\ ReportsError(displayed') ]_vars

\* a question failed at the gateway, the file of a map could not be
\* written, the input stream ended, and the loop is still at the prompt
C14_Witness ==
  /\ pc = "prompt"
  /\ posts # <<>>
  /\ Failed(net)
  /\ now # None
  /\ files = {}
  /\ Caught(raised, "EOFError")
  /\ ReportsError(displayed)

\* hotspot p comes before hotspot r in the listing of stats: it has the
\* greater density, or the same density and the earlier place in the catalog
DenserBefore(p, r) ==
  \/ litter_hotspots[p].litter_density > litter_hotspots[r].litter_density
  \/ /\ litter_hotspots[p].litter_density = litter_hotspots[r].litter_density
     /\ p < r

\* the hotspot that is number i in the order DenserBefore
TopArea(i) ==
  litter_hotspots[
    CHOOSE p \in 1..Len(litter_hotspots) :
       Cardinality({ r \in 1..Len(litter_hotspots) : DenserBefore(r, p) })
         = i - 1]

\* the line of stats for the hotspot that is number i
TopLine(i) ==
  <<"  ", DecimalDigits[i + 1], ". ">> \o TopArea(i).name \o <<" - ">>
  \o str_int(TopArea(i).litter_density) \o <<"/10 density">>

\* what stats prints for the catalogs of __init__: 8 collection points, 8
\* hotspots, 8 * 30 = 240, and the five densest hotspots
StatsOutput ==
  << <<"\nPERTH CONTAINER COLLECTION STATISTICS:\n\nCollection Points: ",
       "8", "\nLitter Hotspots: ", "8", "\nPotential Daily Value: $",
       "2", "4", "0", "+\n\nTOP DENSITY AREAS:\n">>,
     TopLine(1), TopLine(2), TopLine(3), TopLine(4), TopLine(5) >>

\* stats was the last command
StatsShown == pc = "prompt" /\ user_input = <<"s","t","a","t","s">>

\* C15: stats, run any number of times and between any other operations of
\* the loop, prints the same output each time and changes neither the
\* catalogs nor the transcript; the areas listed are the 5 hotspots of
\* highest density in descending order of density, hotspots of equal density
\* in catalog order.
C15_StatsIsTheSameEachTime ==
  /\ [](StatsShown =>
          /\ displayed = StatsOutput
          /\ <<TopArea(1), TopArea(2), TopArea(3), TopArea(4), TopArea(5)>>
               = <<litter_hotspots[1], litter_hotspots[4], litter_hotspots[5],
                   litter_hotspots[2], litter_hotspots[3]>>)
  /\ [][ (ReadLine /\ user_input' = <<"s","t","a","t","s">>) =>
            UNCHANGED <<data_manager, message_history, posts, net, files>> ]_vars

\* stats was run after two questions, one of them annotated with the
\* nearest collection points, and after a map was saved
C15_Witness ==
  /\ StatsShown
  /\ displayed = StatsOutput
  /\ Len(posts) = 2
  /\ files # {}
  /\ \E i \in 1..Len(message_history) :
        Len(message_history[i].content) > Len(CottesloeQuestion)

\* C16: in every reachable state the catalogs satisfy their data
\* invariants: every alias maps to the name of a hotspot that is in the
\* hotspot catalog (no dangling alias), and the litter density of every
\* hotspot, of the chatbot's catalog and of the map script's, is an integer
\* from 0 to 10.
C16_CatalogsKeepTheirDataInvariants ==
  /\ \A a \in 1..Len(data_manager.location_aliases) :
        \E h \in 1..Len(data_manager.litter_hotspots) :
           data_manager.litter_hotspots[h].name
             = data_manager.location_aliases[a][2]
  /\ \A h \in 1..Len(data_manager.litter_hotspots) :
        data_manager.litter_hotspots[h].litter_density \in 0..10
  /\ \A h \in 1..Len(map_litter_hotspots) :
        map_litter_hotspots[h].litter_density \in 0..10

\* the catalogs hold aliases and hotspots, and a question was resolved
\* through an alias and annotated
C16_Witness ==
  /\ Len(data_manager.location_aliases) = 12
  /\ Len(data_manager.litter_hotspots) = 8
  /\ Len(map_litter_hotspots) = 36
  /\ posts # <<>>
  /\ message = CottesloeQuestion
  /\ Len(LastPosted(posts).content) > Len(CottesloeQuestion)

\* C17: no operation (find_location, get_nearby_collection_points, a send,
\* stats, the rendering of the map) changes, adds or deletes a record of
\* a catalog or an alias: the catalogs after any sequence of operations are
\* the catalogs at startup; in particular the distance computed by
\* get_nearby_collection_points is set on copies, never on the records of
\* the catalog.
C17_CatalogsStayAsBuilt ==
  /\ data_manager.cash_collection_points = cash_collection_points
  /\ data_manager.litter_hotspots = litter_hotspots
  /\ data_manager.location_aliases = location_aliases
  /\ \A p \in 1..Len(data_manager.cash_collection_points) :
        "distance" \notin DOMAIN data_manager.cash_collection_points[p]

\* the loop has ended after an annotated question (the nearest collection
\* points were computed), a second question and a saved map
C17_Witness ==
  /\ pc = "exited"
  /\ Len(posts) = 2
  /\ files # {}
  /\ \E i \in 1..Len(message_history) :
        /\ message_history[i].role = "user"
        /\ Occurs(<<"\nNEARBY COLLECTION POINTS:\n">>,
                  message_history[i].content)

\* the step read a line that is a question: not a command, not empty
AskStep ==
  /\ ReadLine
  /\ user_input' \notin TypedQuitWords \cup TypedCommands \cup {<<>>}

\* C18: each send issues exactly one outbound request, whatever its outcome
\* (no retry after a failure), and the messages of that request are the
\* full transcript at that moment: the system message, every earlier user
\* and assistant message (also the user messages of earlier failed sends)
\* and the user message just appended as the last one.
C18_OneRequestWithTheFullTranscript ==
  [][ /\ ~AskStep => posts' = posts
      /\ AskStep =>
           /\ Len(posts') = Len(posts) + 1
           /\ SubSeq(posts', 1, Len(posts)) = posts
           /\ Len(posts'[Len(posts')].messages) = Len(message_history) + 1
           /\ IsPrefix(message_history, posts'[Len(posts')].messages)
           /\ LastPosted(posts').role = "user"
           /\ IsPrefix(user_input', LastPosted(posts').content)
           /\ IsPrefix(posts'[Len(posts')].messages, message_history') ]_vars

\* the second request was posted after a failed send, and failed too: its
\* messages are system, user, user
C18_Witness ==
  /\ Len(posts) = 2
  /\ Failed(net)
  /\ Len(posts[1].messages) = 2
  /\ Len(posts[2].messages) = 3
  /\ posts[2].messages[2].role = "user"
  /\ posts[2].messages[3].role = "user"
  /\ posts[2].messages = message_history

\* the step ran the map command
MapStep == ReadLine /\ user_input' = <<"M","a","p">>

\* two values of the clock in the same second
SameSecond(t, u) ==
  /\ t.year = u.year /\ t.month = u.month /\ t.day = u.day
  /\ t.hour = u.hour /\ t.minute = u.minute /\ t.second = u.second

\* a number below 100 in two digits, a year in four
TwoDigits(n) == <<DecimalDigits[(n \div 10) + 1], DecimalDigits[(n % 10) + 1]>>
FourDigits(n) == TwoDigits(n \div 100) \o TwoDigits(n % 100)

\* perth_containers_<YYYYMMDD_HHMMSS>.html for the value t of the clock
StampedName(t) ==
  <<"perth_containers_">> \o FourDigits(t.year) \o TwoDigits(t.month)
  \o TwoDigits(t.day) \o <<"_">> \o TwoDigits(t.hour) \o TwoDigits(t.minute)
  \o TwoDigits(t.second) \o <<".html">>

\* C19: the name of the file the map command writes is
\* perth_containers_<YYYYMMDD_HHMMSS>.html, determined by the clock alone,
\* to the second: two map commands run within the same second build the
\* same name (the second file overwrites the first), two run in different
\* seconds build different names.
C19_MapNameIsTheClockToTheSecond ==
  /\ [](now # None => filename = StampedName(now))
  /\ [][ (MapStep /\ now # None) =>
            /\ SameSecond(now, now') <=> (filename' = filename)
            /\ files' \in {files, files \cup {filename'}}
            /\ displayed' = map_saved_display(filename') =>
                  files' = files \cup {filename'}
            /\ (filename' = filename /\ filename \in files) =>
                  files' = files ]_vars

\* a map was saved a quarter of a second past 09:05:59 under the name of
\* that second, next to the map of another second
C19_Witness ==
  /\ now # None
  /\ now.microsecond = 250000
  /\ filename =
       <<"perth_containers_", "2","0","2","6","1","1","0","3", "_",
         "0","9","0","5","5","9", ".html">>
  /\ filename \in files
  /\ Cardinality(files) = 2
  /\ displayed = map_saved_display(filename)

----------------------------------------------------------------------------
(* The shape of the transcript *)

\* the positions of the transcript that hold a message of the role
Positions(role) ==
  { i \in 1..Len(message_history) : message_history[i].role = role }

\* the position in the transcript of the user message of send number k
UserPosition(k) == Len(posts[k].messages)

\* C20: in every reachable state the transcript has exactly one system
\* message, at its start; every assistant message comes directly after a
\* user message; after n sends the transcript holds exactly n user messages
\* and at most n assistant messages (two user messages are adjacent exactly
\* where the earlier of the two sends failed).
C20_TranscriptShape ==
  /\ Positions("system") = {1}
  /\ \A i \in 1..Len(message_history) :
        message_history[i].role \in {"system", "user", "assistant"}
  /\ \A i \in Positions("assistant") : (i - 1) \in Positions("user")
  /\ Cardinality(Positions("user")) = Len(posts)
  /\ Cardinality(Positions("assistant")) <= Len(posts)
  /\ Positions("user") = { UserPosition(k) : k \in 1..Len(posts) }
  \* the last send: its user message is the last message exactly if it failed
  /\ posts # <<>> =>
        (Failed(net) <=> (UserPosition(Len(posts)) = Len(message_history)))
  \* an earlier send: the next user message is adjacent exactly if the next
  \* request carries no answer to it
  /\ \A k \in 1..(Len(posts) - 1) :
        /\ (UserPosition(k) + 1) \in Positions("user")
              <=> (UserPosition(k + 1) = UserPosition(k) + 1)
        /\ (UserPosition(k) + 1) \in Positions("assistant")
              <=> (UserPosition(k + 1) = UserPosition(k) + 2)

\* a failed send, then an answered one: system, user, user, assistant
C20_Witness ==
  /\ Len(posts) = 2
  /\ ~Failed(net)
  /\ Positions("user") = {2, 3}
  /\ Positions("assistant") = {4}
  /\ Len(message_history) = 4

----------------------------------------------------------------------------
(* Aliases that are part of another alias *)

\* the pairs <<a, b>> of declared aliases (by number) where the text of a
\* is a substring of the text of b
NestedAliases ==
  { p \in (1..Len(location_aliases)) \X (1..Len(location_aliases)) :
      /\ p[1] # p[2]
      /\ Occurs(location_aliases[p[1]][1], location_aliases[p[2]][1]) }

\* every alias that occurs in the query maps to the one hotspot named
OnlyAliasesOf(q, location_name) ==
  \A c \in AliasesIn(q) : location_aliases[c][2] = location_name

\* C21: for every pair of declared aliases where one is a substring of the
\* other, both map to the same hotspot; and for a query in which an alias
\* of such a pair occurs and every occurring alias maps to that one hotspot,
\* find_location returns that hotspot, whichever alias of the pair the scan
\* in declaration order meets first.
C21_NestedAliasesNameOneHotspot ==
  /\ \A p \in NestedAliases :
        location_aliases[p[1]][2] = location_aliases[p[2]][2]
  /\ Returned =>
       \A p \in NestedAliases :
          ( /\ p[1] \in AliasesIn(query)
            /\ OnlyAliasesOf(query, location_aliases[p[1]][2]) )
          => /\ found = HotspotOfAlias(p[1])
             /\ found = HotspotOfAlias(p[2])

\* both aliases of a pair occur in a query with other text around them, the
\* longer one is declared after the shorter one and so is never the one the
\* scan stops at, and the hotspot of the pair was returned
C21_Witness ==
  /\ Returned
  /\ \E p \in NestedAliases :
        /\ p[1] < p[2]
        /\ p[2] \in AliasesIn(query)
        /\ FirstAliasIn(query) = p[1]
        /\ OnlyAliasesOf(query, location_aliases[p[2]][2])
        /\ Len(query) > Len(location_aliases[p[2]][1])
        /\ found = HotspotOfAlias(p[2])

====
